---- MODULE Spec2Model ----
(***************************************************************************)
(* Target lookup and imputation of baybe/simulation/lookup.py.             *)
(*                                                                         *)
(* A number is the pair <<n, d>> standing for n/d in lowest terms with     *)
(* d > 0; NaN (pandas' missing value) is <<0, 0>>.  A data frame is a      *)
(* sequence of rows in frame order.  A reference-table row is              *)
(*   [idx |-> index label, p |-> parameter values, t |-> target values],  *)
(* with t keyed by column (target) name; a query row is [p |-> ..., t |->  *)
(* ...] where a target column that does not exist yet reads NaN.           *)
(*                                                                         *)
(* Input domain: the lookup is None, a callable or a data frame (what the  *)
(* signature of look_up_targets admits); the table's index labels are      *)
(* unique (as pandas' default index is) and its target cells are known     *)
(* numbers; the query set holds at least one row and only parameter        *)
(* columns; a callable returns the same number (>= 1) of known numbers for *)
(* every row.                                                              *)
(*                                                                         *)
(* warnings.warn obeys the warnings filter of the process: wfilter is the  *)
(* action the filter gives a UserWarning, registry the warning texts the   *)
(* line of the warn call has entered in its module's registry              *)
(* (__warningregistry__), issued the warnings handed to warnings.warn and  *)
(* warned those of them that were shown.  The text of the warning varies   *)
(* with ind alone, so a text is recorded as ind.  Python empties the       *)
(* registry when a warn call finds that the filter list has changed since  *)
(* the registry was last used; whether the pandas calls of a pass change   *)
(* the list depends on the pandas version, so resets, the passes whose warn *)
(* call finds the registry stale, may be any set of passes.                *)
(***************************************************************************)
EXTENDS Integers, Sequences, FiniteSets

VARIABLES queries, queries0, targets, lookup, impute_mode, pc, error, warned,
          imputed, ret, wfilter, registry, registry0, issued, resets

vars == <<queries, queries0, targets, lookup, impute_mode, pc, error, warned,
          imputed, ret, wfilter, registry, registry0, issued, resets>>

\* ------------------------------------------------------------------ bounds
MaxQueries == 2
MaxTable == 3

\* ------------------------------------------------------------------ numbers
NaN == <<0, 0>>
Num(n) == <<n, 1>>
IsNaN(v) == v[2] = 0

Abs(x) == IF x < 0 THEN -x ELSE x

RECURSIVE Gcd(_, _)
Gcd(a, b) == IF b = 0 THEN a ELSE Gcd(b, a % b)

\* n/d in lowest terms; 0/0 (the mean of no values) is NaN
Ratio(n, d) ==
    IF d = 0 THEN NaN
    ELSE LET g == Gcd(Abs(n), d) IN <<n \div g, d \div g>>

Range(s) == {s[k] : k \in DOMAIN s}

\* ------------------------------------------------------------------ targets
TargetNames == {"Y1", "Y2"}
TargetModes == {"MAX", "MIN", "MATCH"}
ImputeModes == {"error", "worst", "best", "mean", "random", "ignore", "median"}

Centers == {2}

\* ------------------------------------------------------------------ frames
Less(a, b) == a[1] * b[2] < b[1] * a[2]

\* (lookup[name] - center).abs() of one cell
Distance(v, center) == <<Abs(v[1] - center * v[2]), v[2]>>

\* the labels of a frame, in frame order (lookup.index)
Index(frame) == [k \in DOMAIN frame |-> frame[k].idx]

\* lookup.loc[label, ...] on a frame with unique labels: the row labelled so
Loc(frame, label) == frame[CHOOSE k \in DOMAIN frame : frame[k].idx = label]

\* lookup.loc[label, target_names].values
TargetVals(frame, label, tgts) ==
    [k \in DOMAIN tgts |-> Loc(frame, label).t[tgts[k].name]]

\* variant: plain equality, under which two missing values are equal
CellEqPlain(a, b) == a = b

\* elementwise == of pandas: a missing value equals nothing, itself included
CellEq(a, b) == ~IsNaN(a) /\ ~IsNaN(b) /\ a = b

\* (lookup.loc[:, row.index] == row).all(axis=1, skipna=False) for one table row
RowMatches(trow, row) == \A c \in DOMAIN row.p : CellEq(trow.p[c], row.p[c])

RECURSIVE SelectLabels(_, _, _)
SelectLabels(frame, row, k) ==
    IF k > Len(frame) THEN <<>>
    ELSE (IF RowMatches(frame[k], row) THEN <<frame[k].idx>> ELSE <<>>)
         \o SelectLabels(frame, row, k + 1)

\* ind = lookup[mask].index.values: labels of the matching rows, in table order
MatchInd(frame, row) == SelectLabels(frame, row, 1)

\* ------------------------------------------------------------------ imputer
Ok(vals) == [ok |-> TRUE, vals |-> vals, err |-> "none"]
Raise(exc) == [ok |-> FALSE, vals |-> <<>>, err |-> exc]

\* lookup.loc[:, name]
Column(frame, name) == [k \in DOMAIN frame |-> frame[k].t[name]]

AddR(a, b) == Ratio(a[1] * b[2] + b[1] * a[2], a[2] * b[2])

RECURSIVE SumR(_, _)
SumR(col, k) == IF k > Len(col) THEN Num(0) ELSE AddR(col[k], SumR(col, k + 1))

\* lookup.loc[:, target_names].mean(axis=0): NaN for a table without rows
ColMean(col) == LET s == SumR(col, 1) IN Ratio(s[1], s[2] * Len(col))

\* Series.max().flatten()[0]: the reduction of an empty column is the Python
\* float nan, which has no flatten()
ColMax(col) ==
    IF col = <<>> THEN Raise("AttributeError")
    ELSE Ok(CHOOSE v \in Range(col) : \A w \in Range(col) : ~Less(v, w))

\* Series.min().flatten()[0]
ColMin(col) ==
    IF col = <<>> THEN Raise("AttributeError")
    ELSE Ok(CHOOSE v \in Range(col) : \A w \in Range(col) : ~Less(w, v))

\* (lookup[name] - center).abs()
Distances(frame, target) ==
    [k \in DOMAIN frame |-> Distance(frame[k].t[target.name], target.center)]

\* Series.idxmin(): the label of the first row holding the smallest value
IdxMin(frame, dist) ==
    frame[CHOOSE k \in DOMAIN dist :
            /\ \A j \in DOMAIN dist : ~Less(dist[j], dist[k])
            /\ \A j \in 1..(k - 1) : Less(dist[k], dist[j])].idx

\* Series.idxmax(): the label of the first row holding the largest value
IdxMax(frame, dist) ==
    frame[CHOOSE k \in DOMAIN dist :
            /\ \A j \in DOMAIN dist : ~Less(dist[k], dist[j])
            /\ \A j \in 1..(k - 1) : Less(dist[j], dist[k])].idx

\* lookup.loc[label,]: the cells of the row labelled so, over all columns
RowCells(frame, label) ==
    LET r == Loc(frame, label) IN Range(r.p) \cup {r.t[n] : n \in DOMAIN r.t}

\* lookup.loc[lookup.loc[label,], name].flatten()[0]: the outer .loc takes the
\* CELLS of the selected row as row labels.  A cell that is no label of the
\* table raises KeyError; when every cell is a label the selection is a
\* Series, which has no flatten().
LocByRowCells(frame, label, name) ==
    IF \E c \in RowCells(frame, label) : \A l \in Range(Index(frame)) : c # Num(l)
    THEN Raise("KeyError")
    ELSE Raise("AttributeError")

\* one pass of the loop of mode "worst"
WorstVal(frame, target) ==
    IF target.mode = "MAX" THEN ColMin(Column(frame, target.name))
    ELSE IF target.mode = "MIN" THEN ColMax(Column(frame, target.name))
    ELSE IF frame = <<>> THEN Raise("ValueError")
    ELSE LocByRowCells(frame, IdxMax(frame, Distances(frame, target)), target.name)

\* variant: the MAX and MIN branches of mode "best" exchanged
BestValSwapped(frame, target) == WorstVal(frame, target)

\* one pass of the loop of mode "best"
BestVal(frame, target) ==
    IF target.mode = "MAX" THEN ColMax(Column(frame, target.name))
    ELSE IF target.mode = "MIN" THEN ColMin(Column(frame, target.name))
    ELSE IF frame = <<>> THEN Raise("ValueError")
    ELSE LocByRowCells(frame, IdxMin(frame, Distances(frame, target)), target.name)

\* the loops over the targets: the first target that raises ends the call
RECURSIVE CollectVals(_, _)
CollectVals(per, k) ==
    IF k > Len(per) THEN Ok(<<>>)
    ELSE IF ~per[k].ok THEN per[k]
    ELSE LET rest == CollectVals(per, k + 1)
         IN IF rest.ok THEN Ok(<<per[k].vals>> \o rest.vals) ELSE rest

\* variant: the else branch raising the error of a failed .loc lookup
UnknownModeKeyError(row) == Raise("KeyError")

\* the else branch: every mode that is none of mean, worst, best, random
UnknownMode(row) == Raise("IndexError")

\* _impute_lookup(row, lookup, targets, mode); rnd is the label that
\* np.random.choice(lookup.index) draws
ImputeLookup(row, frame, tgts, mode, rnd) ==
    IF mode = "mean"
    THEN Ok([k \in DOMAIN tgts |-> ColMean(Column(frame, tgts[k].name))])
    ELSE IF mode = "worst"
    THEN CollectVals([k \in DOMAIN tgts |-> WorstVal(frame, tgts[k])], 1)
    ELSE IF mode = "best"
    THEN CollectVals([k \in DOMAIN tgts |-> BestVal(frame, tgts[k])], 1)
    ELSE IF mode = "random"
    THEN IF frame = <<>> THEN Raise("ValueError")
         ELSE Ok(TargetVals(frame, rnd, tgts))
    ELSE UnknownMode(row)

\* ------------------------------------------------------------------ resolver
\* the locals of _lookup_targets_from_dataframe, with what the call has
\* emitted so far (the warnings handed to warnings.warn, those of them that
\* were shown, the positions of the query rows handed to _impute_lookup) and
\* the warning registry of the process
Locals(qs) ==
    [queries |-> qs, all_match_vals |-> <<>>, issued |-> <<>>, warned |-> <<>>,
     imputed |-> <<>>, error |-> "none", registry |-> {}]

\* the actions a warnings filter can give a warning
WarningActions == {"default", "module", "once", "always", "error", "ignore"}

\* warnings.warn(f"The lookup rows with indexes {ind} ...", UserWarning): a
\* registry found stale (the filter list has changed since its last use) is
\* emptied first; a text in the registry is dropped; otherwise the filter's
\* action decides: "ignore" drops it, "error" raises it, "always" shows it,
\* and "default", "module" and "once" show it and record it (for the one warn
\* call of this module the three registries hold the same texts)
Warn(st, wf, ind, stale) ==
    LET s == [st EXCEPT !.issued = Append(@, ind),
                        !.registry = IF stale THEN {} ELSE @]
    IN  IF ind \in s.registry THEN s
        ELSE IF wf = "ignore" THEN s
        ELSE IF wf = "error" THEN [s EXCEPT !.error = "UserWarning"]
        ELSE IF wf = "always" THEN [s EXCEPT !.warned = Append(@, ind)]
        ELSE [s EXCEPT !.warned = Append(@, ind), !.registry = @ \cup {ind}]

\* variant: the values written into the query row as soon as they are found
CollectAndWrite(st, i, tgts, match_vals) ==
    [st EXCEPT !.all_match_vals = Append(@, match_vals),
               !.queries[i].t =
                    [n \in DOMAIN @ |->
                        IF \E k \in DOMAIN tgts : tgts[k].name = n
                        THEN match_vals[CHOOSE k \in DOMAIN tgts : tgts[k].name = n]
                        ELSE @[n]]]

\* all_match_vals.append(match_vals) of query row i
Collect(st, i, tgts, match_vals) ==
    [st EXCEPT !.all_match_vals = Append(@, match_vals)]

\* variant: the draw made over the whole index of the table
ChoiceDomainAll(frame, ind) == Range(Index(frame))

\* the labels np.random.choice(ind) draws from
ChoiceDomain(frame, ind) == Range(ind)

\* variant: the guard comparing against a misspelt mode
IgnoreGuardMisspelt(mode) == mode = "ignored"

\* impute_mode == "ignore": the guard of the raise in the no-match branch
IgnoreGuard(mode) == mode = "ignore"

\* variant: the values of the first table row instead of the matching one
ExactMatchValsFirstRow(frame, ind, tgts) ==
    [k \in DOMAIN tgts |-> frame[1].t[tgts[k].name]]

\* the exactly-one-match branch: lookup.loc[ind[0], target_names].values
ExactMatchVals(frame, ind, tgts) == TargetVals(frame, ind[1], tgts)

\* one pass of the loop over queries.iterrows(); rnd is what the pass draws,
\* stale whether its warn call finds the registry stale
MatchRow(st, i, tgts, frame, mode, rnd, wf, stale) ==
    LET row == st.queries[i]
        ind == MatchInd(frame, row)
    IN  IF Len(ind) > 1
        THEN LET w == Warn(st, wf, ind, stale)
             IN IF w.error # "none" THEN w
                ELSE Collect(w, i, tgts, TargetVals(frame, rnd, tgts))
        ELSE IF Len(ind) < 1
        THEN IF IgnoreGuard(mode)
             THEN [st EXCEPT !.error = "AssertionError"]
             ELSE LET r == ImputeLookup(row, frame, tgts, mode, rnd)
                      called == [st EXCEPT !.imputed = Append(@, i)]
                  IN IF r.ok THEN Collect(called, i, tgts, r.vals)
                     ELSE [called EXCEPT !.error = r.err]
        ELSE Collect(st, i, tgts, ExactMatchVals(frame, ind, tgts))

\* what pass i may draw: a matching label on an ambiguous match (unused when
\* the warning is raised), any label of the table in impute mode "random",
\* nothing (0) otherwise
Draws(qs, i, frame, mode) ==
    LET ind == MatchInd(frame, qs[i])
    IN  IF Len(ind) > 1 THEN ChoiceDomain(frame, ind)
        ELSE IF Len(ind) < 1 /\ mode = "random" /\ frame # <<>>
        THEN Range(Index(frame))
        ELSE {0}

\* every sequence of draws the passes of one call may make
RECURSIVE DrawSeqs(_, _, _, _)
DrawSeqs(qs, n, frame, mode) ==
    IF n = 0 THEN {<<>>}
    ELSE {Append(s, d) : s \in DrawSeqs(qs, n - 1, frame, mode),
                         d \in Draws(qs, n, frame, mode)}

\* queries.loc[:, target_names] = np.asarray(all_match_vals)
AddLookupValues(st, tgts) ==
    [st EXCEPT !.queries =
        [i \in DOMAIN st.queries |->
            [st.queries[i] EXCEPT !.t =
                [n \in DOMAIN st.queries[i].t |->
                    IF \E k \in DOMAIN tgts : tgts[k].name = n
                    THEN st.all_match_vals[i][CHOOSE k \in DOMAIN tgts : tgts[k].name = n]
                    ELSE st.queries[i].t[n]]]]]

\* the loop; rs holds the passes that find the registry stale
RECURSIVE MatchRows(_, _, _, _, _, _, _, _)
MatchRows(st, i, tgts, frame, mode, rnd, wf, rs) ==
    IF i > Len(st.queries) \/ st.error # "none" THEN st
    ELSE MatchRows(MatchRow(st, i, tgts, frame, mode, rnd[i], wf, i \in rs),
                   i + 1, tgts, frame, mode, rnd, wf, rs)

\* _lookup_targets_from_dataframe(queries, targets, lookup, impute_mode), run
\* under filter action wf with the registry reg
\* and the stale passes rs
LookupTargetsFromDataframe(qs, tgts, frame, mode, rnd, wf, reg, rs) ==
    LET st == MatchRows([Locals(qs) EXCEPT !.registry = reg], 1, tgts, frame,
                        mode, rnd, wf, rs)
    IN  IF st.error # "none" THEN st ELSE AddLookupValues(st, tgts)

\* the callable of the caller: k values per row, computed from the row's
\* parameter values
ParamSum(row) ==
    LET known == {c \in DOMAIN row.p : ~IsNaN(row.p[c])}
    IN  IF known = {} THEN 0
        ELSE LET c1 == CHOOSE c \in known : \A d \in known : c <= d
             IN row.p[c1][1] + Cardinality(known)

Call(fn, row) ==
    [j \in 1..fn.k |->
        IF fn.f = "plus" THEN Num(10 * j + ParamSum(row)) ELSE Num(ParamSum(row) - 10 * j)]

\* variant: only too few returned values are refused
ShapeMismatchLess(k, n) == k < n

\* measured_targets.shape[1] != len(targets)
ShapeMismatch(k, n) == k # n

\* queries[target.name] = measured_targets.iloc[:, k_target], for every target
AssignColumns(qs, tgts, measured) ==
    [i \in DOMAIN qs |->
        [qs[i] EXCEPT !.t =
            [n \in DOMAIN qs[i].t |->
                IF \E k \in DOMAIN tgts : tgts[k].name = n
                THEN measured[i][CHOOSE k \in DOMAIN tgts : tgts[k].name = n]
                ELSE qs[i].t[n]]]]

\* _lookup_targets_from_callable(queries, targets, lookup)
LookupTargetsFromCallable(qs, tgts, fn) ==
    LET measured == [i \in DOMAIN qs |-> Call(fn, qs[i])]
    IN  IF ShapeMismatch(fn.k, Len(tgts))
        THEN [Locals(qs) EXCEPT !.error = "AssertionError"]
        ELSE [Locals(qs) EXCEPT !.queries = AssignColumns(qs, tgts, measured)]

\* add_fake_results(queries, targets): one invented value per row and target
FakeVals == {Num(1), Num(3)}

AddFakeResults(qs, tgts, fake) ==
    [Locals(qs) EXCEPT !.queries =
        [i \in DOMAIN qs |->
            [qs[i] EXCEPT !.t =
                [n \in DOMAIN qs[i].t |->
                    IF \E k \in DOMAIN tgts : tgts[k].name = n
                    THEN fake[n] ELSE qs[i].t[n]]]]]

\* ------------------------------------------------------------------ inputs
\* target lists: one to two targets with distinct names
Target(name, mode) == [name |-> name, mode |-> mode, center |-> CHOOSE c \in Centers : TRUE]

TargetLists ==
    {<<Target(n, m)>> : n \in TargetNames, m \in TargetModes}
    \cup {tl \in {<<Target(n1, m1), Target(n2, m2)>> :
                    n1 \in TargetNames, n2 \in TargetNames,
                    m1 \in TargetModes, m2 \in TargetModes} : tl[1].name # tl[2].name}

\* a sample of them for the batch runs
BatchTargetLists ==
    {<<Target("Y2", "MIN")>>,
     <<Target("Y1", "MAX"), Target("Y2", "MIN")>>,
     <<Target("Y2", "MAX"), Target("Y1", "MATCH")>>}

\* parameter rows (two parameter columns) of the batch runs
ParamPool == {<<Num(1), Num(1)>>, <<Num(1), Num(2)>>, <<NaN, Num(1)>>}

\* every parameter row over {1, 2, missing}
ParamCells == {Num(1), Num(2), NaN}
AllParamRows == {<<a, b>> : a \in ParamCells, b \in ParamCells}

\* target columns of the batch tables, by row position
Layout(kind, k) ==
    IF kind = "inc" THEN ((k - 1) % 3) + 1 ELSE 3 - ((k - 1) % 3)

LayoutPairs == {<<"inc", "dec">>}

NoTargets == [n \in TargetNames |-> NaN]

QuerySets(pool) ==
    UNION {{[i \in 1..n |-> [p |-> ps[i], t |-> NoTargets]] : ps \in [1..n -> pool]}
           : n \in 1..MaxQueries}

\* batch tables: default index labels 0, 1, ...
BatchTables ==
    UNION {{[k \in 1..n |->
                [idx |-> k - 1, p |-> ps[k],
                 t |-> [nm \in TargetNames |->
                          Num(Layout(IF nm = "Y1" THEN lay[1] ELSE lay[2], k))]]]
            : ps \in [1..n -> ParamPool], lay \in LayoutPairs}
           : n \in 0..MaxTable}

\* the actions that enter a shown warning in the registry
RecordingActions == {"default", "module", "once"}

\* the warnings state a call may start in: one of the given actions with
\* nothing issued yet, or the default action after an earlier call of the
\* process has warned about the rows labelled 0 and 1; and the passes whose
\* warn call finds the registry stale, any set of the ambiguous passes under
\* a recording action (under the other actions the registry stays empty).
\* The filter is consulted on an ambiguous match only, so a call without one
\* is started in the default state alone.
WarningStates(qs, frame, actions) ==
    LET amb == {i \in DOMAIN qs : Len(MatchInd(frame, qs[i])) > 1}
        sets == SUBSET amb
    IN  IF amb # {}
        THEN {ws \in [action : actions, registry : {{}}, resets : sets] :
                ws.action \in RecordingActions \/ ws.resets = {}}
             \cup {[action |-> "default", registry |-> {<<0, 1>>}, resets |-> rs]
                     : rs \in sets}
        ELSE {[action |-> "default", registry |-> {}, resets |-> {}]}

InitWarnings(actions) ==
    /\ \E ws \in WarningStates(queries, lookup.frame, actions) :
          wfilter = ws.action /\ registry = ws.registry /\ resets = ws.resets
    /\ registry0 = registry
    /\ issued = <<>>

NoFn == [k |-> 0, f |-> "none"]
Callables == {[k |-> k, f |-> f] : k \in 1..3, f \in {"plus", "minus"}}

LookupSources ==
    {[kind |-> "none", frame |-> <<>>, fn |-> NoFn]}
    \cup {[kind |-> "callable", frame |-> <<>>, fn |-> fn] : fn \in Callables}
    \cup {[kind |-> "table", frame |-> fr, fn |-> NoFn] : fr \in BatchTables}

\* ------------------------------------------------------------------ batch resolution
\* every lookup source, in a process that runs under the default warnings
\* filter
Init ==
    /\ queries \in QuerySets(ParamPool)
    /\ queries0 = queries
    /\ targets \in BatchTargetLists
    /\ lookup \in LookupSources
    /\ impute_mode \in ImputeModes
    /\ pc = "call"
    /\ error = "none"
    /\ warned = <<>>
    /\ imputed = <<>>
    /\ ret = <<>>
    /\ InitWarnings({"default"})

Finish(st) ==
    /\ queries' = st.queries
    /\ error' = st.error
    /\ warned' = st.warned
    /\ issued' = st.issued
    /\ imputed' = st.imputed
    /\ registry' = st.registry
    /\ pc' = IF st.error = "none" THEN "returned" ELSE "raised"
    /\ UNCHANGED <<queries0, targets, lookup, impute_mode, ret, wfilter,
                   registry0, resets>>

\* look_up_targets, lookup is None
LookUpFake ==
    /\ pc = "call"
    /\ lookup.kind = "none"
    /\ \E fake \in [TargetNames -> FakeVals] :
          Finish([AddFakeResults(queries, targets, fake) EXCEPT !.registry = registry])

\* look_up_targets, lookup is a callable
LookUpCallable ==
    /\ pc = "call"
    /\ lookup.kind = "callable"
    /\ Finish([LookupTargetsFromCallable(queries, targets, lookup.fn)
                EXCEPT !.registry = registry])

\* look_up_targets, lookup is a data frame
LookUpDataframe ==
    /\ pc = "call"
    /\ lookup.kind = "table"
    /\ \E rnd \in DrawSeqs(queries, Len(queries), lookup.frame, impute_mode) :
          Finish(LookupTargetsFromDataframe(queries, targets, lookup.frame,
                                            impute_mode, rnd, wfilter, registry,
                                            resets))

\* a direct call _impute_lookup(queries[0], lookup, targets, impute_mode)
ImputeCall ==
    /\ pc = "call"
    /\ lookup.kind = "table"
    /\ \E rnd \in (IF impute_mode = "random" /\ lookup.frame # <<>>
                    THEN Range(Index(lookup.frame)) ELSE {0}) :
          ret' = ImputeLookup(queries[1], lookup.frame, targets, impute_mode, rnd)
    /\ pc' = "imputed"
    /\ UNCHANGED <<queries, queries0, targets, lookup, impute_mode, error,
                   warned, imputed, wfilter, registry, registry0, issued,
                   resets>>

\* the matching step alone, on queries[0]
MatchCall ==
    /\ pc = "call"
    /\ lookup.kind = "table"
    /\ ret' = MatchInd(lookup.frame, queries[1])
    /\ pc' = "matched"
    /\ UNCHANGED <<queries, queries0, targets, lookup, impute_mode, error,
                   warned, imputed, wfilter, registry, registry0, issued,
                   resets>>

Next == LookUpFake \/ LookUpCallable \/ LookUpDataframe

Spec == Init /\ [][Next]_vars

\* ------------------------------------------------------------------ warnings filter
\* the batch tables under every impute mode and every
\* action of the warnings filter, with known parameter values throughout
FilterPool == {<<Num(1), Num(1)>>, <<Num(1), Num(2)>>}

FilterTables ==
    {fr \in BatchTables : \A k \in DOMAIN fr : fr[k].p \in FilterPool}

InitFilter ==
    /\ queries \in QuerySets(FilterPool)
    /\ queries0 = queries
    /\ targets \in {<<Target("Y1", "MATCH")>>, <<Target("Y1", "MAX"), Target("Y2", "MIN")>>}
    /\ lookup \in {[kind |-> "table", frame |-> fr, fn |-> NoFn] : fr \in FilterTables}
    /\ impute_mode \in ImputeModes
    /\ pc = "call"
    /\ error = "none"
    /\ warned = <<>>
    /\ imputed = <<>>
    /\ ret = <<>>
    /\ InitWarnings(WarningActions)

NextFilter == LookUpDataframe

SpecFilter == InitFilter /\ [][NextFilter]_vars

\* ------------------------------------------------------------------ failing modes
\* the batch tables under the modes that impute nothing, with the imputer
\* also called directly
InitError ==
    /\ queries \in QuerySets(ParamPool)
    /\ queries0 = queries
    /\ targets \in {<<Target("Y1", "MATCH")>>, <<Target("Y1", "MAX"), Target("Y2", "MIN")>>}
    /\ lookup \in {[kind |-> "table", frame |-> fr, fn |-> NoFn] : fr \in BatchTables}
    /\ impute_mode \in {"error", "ignore", "median"}
    /\ pc = "call"
    /\ error = "none"
    /\ warned = <<>>
    /\ imputed = <<>>
    /\ ret = <<>>
    /\ InitWarnings(WarningActions)

NextError == ImputeCall \/ LookUpDataframe

SpecError == InitError /\ [][NextError]_vars

\* ------------------------------------------------------------------ imputer runs
\* tables whose first target column ranges over every value of {1, 2, 3}; the
\* index is the default one (0, 1, ...) or starts at 1
Mirror(kind, v) == IF kind = "mirror" THEN 4 - v ELSE 2

ImputeTables ==
    UNION {{[k \in 1..n |->
                [idx |-> k - 1 + base, p |-> <<Num(1), Num(1)>>,
                 t |-> [nm \in TargetNames |->
                          Num(IF nm = "Y1" THEN ys[k] ELSE Mirror(mk, ys[k]))]]]
            : ys \in [1..n -> {1, 2, 3}], mk \in {"mirror", "flat"}, base \in {0, 1}}
           : n \in 0..MaxTable}

InitImpute ==
    /\ queries \in {<<[p |-> ps, t |-> NoTargets]>> : ps \in {<<Num(1), Num(2)>>, <<NaN, Num(2)>>}}
    /\ queries0 = queries
    /\ targets \in TargetLists
    /\ lookup \in {[kind |-> "table", frame |-> fr, fn |-> NoFn] : fr \in ImputeTables}
    /\ impute_mode \in ImputeModes
    /\ pc = "call"
    /\ error = "none"
    /\ warned = <<>>
    /\ imputed = <<>>
    /\ ret = <<>>
    /\ InitWarnings(WarningActions)

NextImpute == ImputeCall

SpecImpute == InitImpute /\ [][NextImpute]_vars

\* ------------------------------------------------------------------ matching runs
\* tables and one query row over every parameter row of {1, 2, missing}
MatchTables ==
    UNION {{[k \in 1..n |->
                [idx |-> k - 1, p |-> ps[k],
                 t |-> [nm \in TargetNames |-> Num(Layout("inc", k))]]]
            : ps \in [1..n -> AllParamRows]}
           : n \in 0..MaxTable}

InitMatch ==
    /\ queries \in {<<[p |-> ps, t |-> NoTargets]>> : ps \in AllParamRows}
    /\ queries0 = queries
    /\ targets = <<Target("Y1", "MAX")>>
    /\ lookup \in {[kind |-> "table", frame |-> fr, fn |-> NoFn] : fr \in MatchTables}
    /\ impute_mode \in {"mean", "ignore"}
    /\ pc = "call"
    /\ error = "none"
    /\ warned = <<>>
    /\ imputed = <<>>
    /\ ret = <<>>
    /\ InitWarnings(WarningActions)

NextMatch == MatchCall \/ LookUpDataframe

SpecMatch == InitMatch /\ [][NextMatch]_vars

\* ------------------------------------------------------------------ properties
Frame == lookup.frame
TableCall == lookup.kind = "table"
Ended == pc \in {"returned", "raised"}

\* the claims' reading of a match: every parameter cell is known on both
\* sides and equal
SameParams(trow, qrow) ==
    \A c \in DOMAIN qrow.p :
        /\ trow.p[c] # NaN
        /\ qrow.p[c] # NaN
        /\ trow.p[c] = qrow.p[c]

\* positions of the table rows matching query row i as it was passed in
Matching(i) == {r \in DOMAIN Frame : SameParams(Frame[r], queries0[i])}

Labels(rows) == {Frame[r].idx : r \in rows}

Cell(i, k) == queries[i].t[targets[k].name]

Ambiguous == {i \in DOMAIN queries0 : Cardinality(Matching(i)) > 1}
Missed == {j \in DOMAIN queries0 : Matching(j) = {}}

\* the text of the warning of ambiguous row i
WarningOf(i) == MatchInd(Frame, queries0[i])

\* the filter turns the warning of an ambiguous row before row j into an
\* exception
WarningRaisedBefore(j) ==
    /\ wfilter = "error"
    /\ \E h \in Ambiguous : h < j /\ WarningOf(h) \notin registry0

\* some query row has no match and no warning is raised before the first such
FirstMissReached ==
    \E j \in Missed : (\A h \in Missed : j <= h) /\ ~WarningRaisedBefore(j)

\* C1: a call that returns normally leaves no target cell of any query row
\* missing, whichever lookup source was supplied.
C1_NoMissingOnReturn ==
    pc = "returned" =>
        \A i \in DOMAIN queries : \A k \in DOMAIN targets : ~IsNaN(Cell(i, k))

\* C2: after a successful table lookup, a query row with exactly one matching
\* table row holds that row's target values, under every impute mode and
\* whatever happened to the other rows.
C2_ExactMatchCopied ==
    (TableCall /\ pc = "returned") =>
        \A i \in DOMAIN queries :
            Cardinality(Matching(i)) = 1 =>
                \A r \in Matching(i) : \A k \in DOMAIN targets :
                    Cell(i, k) = Frame[r].t[targets[k].name]

C2_Witness ==
    /\ TableCall /\ pc = "returned"
    /\ Len(queries) = 2 /\ Len(Frame) = 3 /\ Len(targets) = 2
    /\ Matching(1) = {} /\ Matching(2) = {3}
    /\ impute_mode = "worst"

\* C3: a table lookup that fails leaves the query set exactly as it was passed
\* in, rows resolved before the failing row included.
C3_NoPartialWrite ==
    (TableCall /\ pc = "raised") => queries = queries0

C3_Witness ==
    /\ TableCall /\ pc = "raised" /\ queries = queries0
    /\ Len(queries) = 2
    /\ Cardinality(Matching(1)) = 1 /\ Matching(2) = {}
    /\ impute_mode \in {"error", "ignore", "median"}

\* C4 as amended: under impute mode "ignore" the imputer is never called.  A
\* call with a query row without match fails: with the assertion error at the
\* first such row, or with the UserWarning of an earlier ambiguous row when
\* the warnings filter raises it.  A call whose rows all match fails only with
\* that UserWarning, and returns otherwise.
C4_IgnoreFailsUnlessWarningRaised ==
    (TableCall /\ Ended /\ impute_mode = "ignore") =>
        /\ imputed = <<>>
        /\ IF FirstMissReached
           THEN pc = "raised" /\ error = "AssertionError"
           ELSE IF WarningRaisedBefore(Len(queries0) + 1)
           THEN pc = "raised" /\ error = "UserWarning"
           ELSE pc = "returned"

\* C4 as stated: under impute mode "ignore" a table lookup fails with the
\* assertion error, without ever calling the imputer, exactly when some query
\* row has no match; otherwise it returns.
C4_IgnoreFailsOnMiss ==
    (TableCall /\ Ended /\ impute_mode = "ignore") =>
        IF \E i \in DOMAIN queries0 : Matching(i) = {}
        THEN pc = "raised" /\ error = "AssertionError" /\ imputed = <<>>
        ELSE pc = "returned" /\ imputed = <<>>

C4_Witness ==
    /\ TableCall /\ pc = "raised" /\ impute_mode = "ignore"
    /\ error = "AssertionError" /\ imputed = <<>>
    /\ Len(queries) = 2 /\ Cardinality(Matching(1)) > 1 /\ Matching(2) = {}
    /\ wfilter = "default" /\ warned = <<WarningOf(1)>>

C4_WitnessWarningRaised ==
    /\ TableCall /\ pc = "raised" /\ impute_mode = "ignore"
    /\ error = "UserWarning" /\ wfilter = "error"
    /\ Len(queries) = 2 /\ Cardinality(Matching(1)) > 1 /\ Matching(2) = {}

C4_WitnessAllMatched ==
    /\ TableCall /\ pc = "returned" /\ impute_mode = "ignore"
    /\ Len(queries) = 2 /\ Cardinality(Matching(1)) = 1 /\ Cardinality(Matching(2)) > 1

\* C5 as amended: the imputer called with mode "error", or any mode that is
\* none of mean/best/worst/random, raises the lookup-miss error (IndexError)
\* and returns no value; a table lookup under mode "error" with a query row
\* without match fails, with that error at the first such row, or with the
\* UserWarning of an earlier ambiguous row when the warnings filter raises it.
C5_ErrorModeRaisesUnlessWarningRaised ==
    /\ (pc = "imputed" /\ impute_mode \notin {"mean", "best", "worst", "random"})
            => (~ret.ok /\ ret.err = "IndexError" /\ ret.vals = <<>>)
    /\ (TableCall /\ Ended /\ impute_mode = "error" /\ Missed # {})
            => /\ pc = "raised"
               /\ error = IF FirstMissReached THEN "IndexError" ELSE "UserWarning"

\* C5 as stated: the imputer called with mode "error", or any mode that is
\* none of mean/best/worst/random, raises the lookup-miss error (IndexError)
\* and returns no value; a table lookup under mode "error" fails with that
\* error whenever some query row has no match.
C5_ErrorModeRaises ==
    /\ (pc = "imputed" /\ impute_mode \notin {"mean", "best", "worst", "random"})
            => (~ret.ok /\ ret.err = "IndexError" /\ ret.vals = <<>>)
    /\ (TableCall /\ Ended /\ impute_mode = "error"
            /\ \E i \in DOMAIN queries0 : Matching(i) = {})
            => (pc = "raised" /\ error = "IndexError")

C5_Witness ==
    /\ TableCall /\ pc = "raised" /\ impute_mode = "error" /\ error = "IndexError"
    /\ Len(queries) = 2 /\ Cardinality(Matching(1)) > 1 /\ Matching(2) = {}
    /\ wfilter = "always" /\ warned = <<WarningOf(1)>>
    /\ imputed = <<2>>

C5_WitnessWarningRaised ==
    /\ TableCall /\ pc = "raised" /\ impute_mode = "error" /\ error = "UserWarning"
    /\ Len(queries) = 2 /\ Cardinality(Matching(1)) > 1 /\ Matching(2) = {}
    /\ imputed = <<>>

C5_WitnessDirect ==
    /\ pc = "imputed" /\ impute_mode = "median" /\ Frame # <<>>
    /\ ~ret.ok /\ ret.err = "IndexError"

\* C6: a callable returning k values per row fails with the target-count
\* assertion, the query set unchanged, when k differs from the number of
\* targets; otherwise the j-th value of each row is stored under the j-th
\* target's name.
C6_CallableCount ==
    (lookup.kind = "callable" /\ Ended) =>
        IF lookup.fn.k # Len(targets)
        THEN pc = "raised" /\ error = "AssertionError" /\ queries = queries0
        ELSE /\ pc = "returned"
             /\ \A i \in DOMAIN queries : \A j \in DOMAIN targets :
                    Cell(i, j) = Call(lookup.fn, queries0[i])[j]

C6_Witness ==
    /\ lookup.kind = "callable" /\ pc = "returned"
    /\ lookup.fn.k = 2 /\ Len(targets) = 2 /\ targets[1].name = "Y2"
    /\ Len(queries) = 2 /\ queries # queries0

C6_WitnessMismatch ==
    /\ lookup.kind = "callable" /\ pc = "raised"
    /\ lookup.fn.k > Len(targets) /\ queries = queries0

\* the column of target k holds v, and no cell of it is larger / smaller
IsColMax(v, k) ==
    /\ \E r \in DOMAIN Frame : Frame[r].t[targets[k].name] = v
    /\ \A r \in DOMAIN Frame : ~Less(v, Frame[r].t[targets[k].name])

IsColMin(v, k) ==
    /\ \E r \in DOMAIN Frame : Frame[r].t[targets[k].name] = v
    /\ \A r \in DOMAIN Frame : ~Less(Frame[r].t[targets[k].name], v)

BestOrWorstImputed ==
    pc = "imputed" /\ Frame # <<>> /\ impute_mode \in {"best", "worst"}

\* C7: on a non-empty table, for target lists of MAX and MIN targets, modes
\* "best" and "worst" return exactly one value per target in target-list
\* order: best is the column maximum of a MAX target and the column minimum
\* of a MIN target, worst the reverse; the query row plays no part.
C7_BestWorstExtremes ==
    BestOrWorstImputed =>
        /\ (\A k \in DOMAIN targets : targets[k].mode \in {"MAX", "MIN"}) => ret.ok
        /\ ret.ok =>
            /\ Len(ret.vals) = Len(targets)
            /\ \A k \in DOMAIN targets :
                  /\ (targets[k].mode = "MAX" /\ impute_mode = "best")
                        => IsColMax(ret.vals[k], k)
                  /\ (targets[k].mode = "MIN" /\ impute_mode = "best")
                        => IsColMin(ret.vals[k], k)
                  /\ (targets[k].mode = "MAX" /\ impute_mode = "worst")
                        => IsColMin(ret.vals[k], k)
                  /\ (targets[k].mode = "MIN" /\ impute_mode = "worst")
                        => IsColMax(ret.vals[k], k)

C7_Witness ==
    /\ BestOrWorstImputed /\ impute_mode = "best" /\ ret.ok
    /\ Len(Frame) = 3 /\ Len(targets) = 2
    /\ targets[1].mode = "MIN" /\ targets[2].mode = "MAX"
    /\ ret.vals[1] # ret.vals[2]
    /\ \E r \in DOMAIN Frame : Frame[r].t[targets[1].name] # ret.vals[1]

\* distance of table row r to the interval center of target k
Dist(r, k) == Abs(Frame[r].t[targets[k].name][1] - targets[k].center)

\* C8: for a MATCH target, mode "best" returns the target value of the first
\* table row whose distance to the interval center is smallest, and mode
\* "worst" that of the first row whose distance is largest.
C8_MatchNearest ==
    BestOrWorstImputed =>
        \A k \in DOMAIN targets :
            targets[k].mode = "MATCH" =>
                /\ ret.ok
                /\ \E r \in DOMAIN Frame :
                      /\ ret.vals[k] = Frame[r].t[targets[k].name]
                      /\ \A q \in DOMAIN Frame :
                            IF impute_mode = "best" THEN Dist(r, k) <= Dist(q, k)
                            ELSE Dist(r, k) >= Dist(q, k)
                      /\ \A q \in 1..(r - 1) : Dist(q, k) # Dist(r, k)

\* what the code does on a MATCH target instead: every call raises
C8_MatchAlwaysRaises ==
    (BestOrWorstImputed /\ \E k \in DOMAIN targets : targets[k].mode = "MATCH")
        => (~ret.ok /\ ret.err \in {"KeyError", "AttributeError"})

\* the place of ambiguous row i among the ambiguous rows
Rank(i) == Cardinality({h \in Ambiguous : h <= i})

\* the single-row part of C9: an ambiguous row holds the target values of one
\* of its matching rows
FromSingleRow(i) ==
    \E r \in Matching(i) :
        \A k \in DOMAIN targets : Cell(i, k) = Frame[r].t[targets[k].name]

\* C9 as amended: for a query row matching several table rows a warning
\* naming the labels of those rows is issued.  Unless the warnings filter
\* turns it into an exception, which fails the call with UserWarning and
\* nothing written, the row gets the target values of one single row among
\* the matching ones and the remaining rows are processed, under every impute
\* mode; a call that raises has a query row without match or a raised
\* warning.
C9_AmbiguousMatchUnlessWarningRaised ==
    (TableCall /\ Ended) =>
        /\ pc = "returned" =>
                /\ Len(issued) = Cardinality(Ambiguous)
                /\ \A i \in Ambiguous : FromSingleRow(i)
        /\ Len(issued) <= Cardinality(Ambiguous)
        /\ \A i \in Ambiguous : Rank(i) <= Len(issued) => issued[Rank(i)] = WarningOf(i)
        /\ \A w \in DOMAIN warned : warned[w] \in Range(issued)
        /\ pc = "raised" =>
                \/ Missed # {}
                \/ error = "UserWarning"
        /\ error = "UserWarning" =>
                /\ pc = "raised" /\ queries = queries0
                /\ WarningRaisedBefore(Len(queries0) + 1)
        /\ (WarningRaisedBefore(Len(queries0) + 1) /\ Missed = {}) =>
                error = "UserWarning"
        /\ \A j \in Missed :
                (/\ impute_mode # "ignore"
                 /\ \A h \in Missed : j <= h
                 /\ ~WarningRaisedBefore(j))
                => j \in Range(imputed)

\* C9 as stated: for a query row matching several table rows a warning
\* naming the labels of those rows is issued and the row gets, on return, the
\* target values of one single row among them; ambiguity never fails the
\* call: every row is still processed, and a call that raises has a query row
\* without any match.
C9_AmbiguousMatch ==
    (TableCall /\ Ended) =>
        /\ pc = "returned" =>
                /\ Len(issued) = Cardinality(Ambiguous)
                /\ \A i \in Ambiguous : FromSingleRow(i)
        /\ Len(issued) <= Cardinality(Ambiguous)
        /\ \A i \in Ambiguous : Rank(i) <= Len(issued) => issued[Rank(i)] = WarningOf(i)
        /\ pc = "raised" => Missed # {}
        /\ \A j \in Missed :
                (/\ impute_mode # "ignore"
                 /\ \A h \in Missed : j <= h)
                => j \in Range(imputed)

\* without the action "error" the claim as stated holds
C9_HoldsUnlessRaised == wfilter # "error" => C9_AmbiguousMatch

C9_WitnessShownAgain ==
    /\ TableCall /\ pc = "returned" /\ wfilter = "default" /\ registry0 = {}
    /\ Len(queries) = 2 /\ Matching(1) = {1, 2} /\ Matching(2) = {1, 2}
    /\ resets = {2}
    /\ issued = <<WarningOf(1), WarningOf(2)>> /\ warned = issued

C9_WitnessRepeated ==
    /\ TableCall /\ pc = "returned" /\ wfilter = "default" /\ registry0 = {}
    /\ Len(queries) = 2 /\ Matching(1) = {1, 2} /\ Matching(2) = {1, 2}
    /\ resets = {}
    /\ issued = <<WarningOf(1), WarningOf(2)>> /\ warned = <<WarningOf(1)>>
    /\ \E k \in DOMAIN targets : Cell(1, k) # Cell(2, k)

C9_WitnessEarlierCall ==
    /\ TableCall /\ pc = "returned" /\ wfilter = "default" /\ registry0 # {}
    /\ Ambiguous # {} /\ issued # <<>> /\ warned = <<>>

C9_WitnessRaised ==
    /\ TableCall /\ pc = "raised" /\ wfilter = "error" /\ error = "UserWarning"
    /\ Missed = {} /\ Len(queries) = 2 /\ Ambiguous = {2} /\ queries = queries0
    /\ issued = <<WarningOf(2)>> /\ warned = <<>>

C9_Witness ==
    /\ TableCall /\ pc = "returned" /\ impute_mode = "mean"
    /\ wfilter = "default" /\ registry0 = {}
    /\ Len(queries) = 2 /\ Len(Frame) = 2 /\ Len(targets) = 2
    /\ Matching(1) = {1, 2} /\ Matching(2) = {}
    /\ issued = <<<<Frame[1].idx, Frame[2].idx>>>> /\ warned = issued
    /\ \A k \in DOMAIN targets : Cell(1, k) = Frame[2].t[targets[k].name]
    /\ \E k \in DOMAIN targets : Cell(1, k) # Frame[1].t[targets[k].name]
    /\ imputed = <<2>>

HasMissingParam(i) == \E c \in DOMAIN queries0[i].p : queries0[i].p[c] = NaN

\* C10: a table row matches a query row exactly when every parameter cell is
\* known on both sides and equal, a missing value equalling nothing; so a
\* query row with a missing parameter matches no row and is handled as the
\* no-match case (imputed, or the assertion error under "ignore").
C10_MissingAwareMatch ==
    /\ pc = "matched" =>
          /\ \A r \in DOMAIN Frame :
                (Frame[r].idx \in Range(ret)) <=> (r \in Matching(1))
          /\ HasMissingParam(1) => ret = <<>>
    /\ (TableCall /\ Ended /\ HasMissingParam(1)) =>
          IF impute_mode = "ignore"
          THEN pc = "raised" /\ error = "AssertionError"
          ELSE imputed = <<1>> /\ warned = <<>>

C10_Witness ==
    /\ pc = "matched" /\ ret = <<>> /\ Len(Frame) = 2
    /\ queries0[1].p = <<NaN, Num(2)>>
    /\ Frame[1].p = <<NaN, Num(2)>>
    /\ Frame[2].p = <<Num(1), Num(2)>>

C10_WitnessMatch ==
    /\ pc = "matched" /\ Len(Frame) = 3
    /\ ret = <<Frame[1].idx, Frame[3].idx>>
    /\ Frame[2].p[1] = queries0[1].p[1] /\ Frame[2].p[2] # queries0[1].p[2]

====
